---- MODULE Spec2Model ----
(***************************************************************************)
(* The format-template parser of src/formatting/parse.rs.                  *)
(*                                                                         *)
(* A string is a sequence of one-character strings.  A parser maps an      *)
(* input to an IResult: Ok (remaining input and output), Error (a          *)
(* recoverable failure: the enclosing alt/opt/many0 may go on) or Failure  *)
(* (a committed failure, made by cut).  Option values are sequences of     *)
(* length 0 (None) or 1 (Some).  The nom 7 combinators are written over    *)
(* results: a combinator's later argument is only evaluated when the       *)
(* earlier one succeeded, as in the library.                               *)
(***************************************************************************)
EXTENDS Naturals, Sequences, FiniteSets, TLC

VARIABLES
    frame,   \* the frame the input was built in
    body,    \* the enumerated part of the input
    input,   \* the string the last parser was called on
    pc,      \* "start", or the parser that produced res
    res,     \* the result of the last call
    prev,    \* the result of the call before it
    depth    \* how many times the input was put inside braces

vars == <<frame, body, input, pc, res, prev, depth>>

----------------------------------------------------------------------------
(* IResult and PError                                                      *)

Ok(rest, out) == [kind |-> "Ok", rest |-> rest, out |-> out]

Error(e) == [kind |-> "Error", err |-> e]

Failure(e) == [kind |-> "Failure", err |-> e]

IsOk(r) == r.kind = "Ok"

\* PError::Expected, built by from_char: the next character, if any
Expected(c, i) ==
    [t |-> "Expected", expected |-> c,
     actual |-> IF i = <<>> THEN <<>> ELSE <<Head(i)>>]

\* PError::Other, built by from_error_kind
Other(i, k) == [t |-> "Other", input |-> i, kind |-> k]

----------------------------------------------------------------------------
(* Character classes                                                       *)

AsciiWhitespace == {" ", "\t", "\n", "\f", "\r"}

Alphanumeric ==
    {"a", "b", "c", "d", "e", "f", "g", "h", "i", "j", "k", "l", "m", "n",
     "o", "p", "q", "r", "s", "t", "u", "v", "w", "x", "y", "z",
     "A", "B", "C", "D", "E", "F", "G", "H", "I", "J", "K", "L", "M", "N",
     "O", "P", "Q", "R", "S", "T", "U", "V", "W", "X", "Y", "Z",
     "0", "1", "2", "3", "4", "5", "6", "7", "8", "9"}

IsIdentChar(x) == x \in Alphanumeric \/ x = "_" \/ x = "-"

IsBareValueChar(x) ==
    x \in Alphanumeric \/ x = "_" \/ x = "-" \/ x = "." \/ x = "%"

\* faulty variant: the | is not left out of the text characters
IsTextChar_pipe(x) ==
    x # "$" /\ x # "^" /\ x # "{" /\ x # "}" /\ x # "\\"

\* faulty variant: the quote is left out of the text characters too
IsTextChar_quote(x) ==
    x # "$" /\ x # "^" /\ x # "{" /\ x # "}" /\ x # "|" /\ x # "\\"
        /\ x # "'"

IsTextChar(x) ==
    x # "$" /\ x # "^" /\ x # "{" /\ x # "}" /\ x # "|" /\ x # "\\"

Drop(s, n) == SubSeq(s, n + 1, Len(s))

Take(s, n) == SubSeq(s, 1, n)

\* the length of the longest prefix of ident characters
RECURSIVE IdentRun(_)
IdentRun(i) ==
    IF i # <<>> /\ IsIdentChar(Head(i)) THEN 1 + IdentRun(Tail(i)) ELSE 0

RECURSIVE BareRun(_)
BareRun(i) ==
    IF i # <<>> /\ IsBareValueChar(Head(i)) THEN 1 + BareRun(Tail(i)) ELSE 0

RECURSIVE SpaceRun(_)
SpaceRun(i) ==
    IF i # <<>> /\ Head(i) \in AsciiWhitespace THEN 1 + SpaceRun(Tail(i)) ELSE 0

RECURSIVE TextRun(_)
TextRun(i) ==
    IF i # <<>> /\ IsTextChar(Head(i)) THEN 1 + TextRun(Tail(i)) ELSE 0

RECURSIVE NotQuoteRun(_)
NotQuoteRun(i) ==
    IF i # <<>> /\ Head(i) # "'" THEN 1 + NotQuoteRun(Tail(i)) ELSE 0

----------------------------------------------------------------------------
(* nom combinators                                                         *)

\* take_while: the longest matching prefix, possibly empty; never fails
take_while(n, i) == Ok(Drop(i, n), Take(i, n))

\* take_while1: the longest matching prefix, which must not be empty
take_while1(n, i) ==
    IF n = 0 THEN Error(Other(i, "TakeWhile1")) ELSE Ok(Drop(i, n), Take(i, n))

char(c, i) ==
    IF i # <<>> /\ Head(i) = c THEN Ok(Tail(i), c) ELSE Error(Expected(c, i))

tag(t, i) ==
    IF Len(i) >= Len(t) /\ Take(i, Len(t)) = t
    THEN Ok(Drop(i, Len(t)), t)
    ELSE Error(Other(i, "Tag"))

anychar(i) ==
    IF i = <<>> THEN Error(Other(i, "Eof")) ELSE Ok(Tail(i), Head(i))

eof(i) == IF i = <<>> THEN Ok(i, i) ELSE Error(Other(i, "Eof"))

\* not(p): succeeds, consuming nothing, when p fails recoverably
not(r, i) ==
    IF r.kind = "Ok" THEN Error(Other(i, "Not"))
    ELSE IF r.kind = "Error" THEN Ok(i, <<>>)
    ELSE r

\* cut(p): a recoverable error of p becomes a committed failure
cut(r) == IF r.kind = "Error" THEN Failure(r.err) ELSE r

\* opt(p): a recoverable error of p becomes None; a failure passes
opt(r, i) ==
    IF r.kind = "Ok" THEN Ok(r.rest, <<r.out>>)
    ELSE IF r.kind = "Error" THEN Ok(i, <<>>)
    ELSE r

\* alt of two branches: the second is tried only on a recoverable error of
\* the first; PError::or and PError::append keep the later error
alt(r1, r2) == IF r1.kind = "Error" THEN r2 ELSE r1

\* preceded(p, q): q runs on what p left; p's output is dropped
preceded(r1, r2) == IF r1.kind # "Ok" THEN r1 ELSE r2

\* terminated(p, q): q runs on what p left; q's output is dropped
terminated(r1, r2) ==
    IF r1.kind # "Ok" THEN r1
    ELSE IF r2.kind # "Ok" THEN r2
    ELSE Ok(r2.rest, r1.out)

\* tuple((p, q))
tuple(r1, r2) ==
    IF r1.kind # "Ok" THEN r1
    ELSE IF r2.kind # "Ok" THEN r2
    ELSE Ok(r2.rest, <<r1.out, r2.out>>)

\* separated_pair(p, sep, q)
separated_pair(r1, rsep, r2) ==
    IF r1.kind # "Ok" THEN r1
    ELSE IF rsep.kind # "Ok" THEN rsep
    ELSE IF r2.kind # "Ok" THEN r2
    ELSE Ok(r2.rest, <<r1.out, r2.out>>)

----------------------------------------------------------------------------
(* The grammar                                                             *)
(*                                                                         *)
(* A parser whose result is read more than once is handed to a helper as   *)
(* a parameter: the helper is the closure or the rest of the combinator    *)
(* chain of the source.                                                    *)

spaces(i) == take_while(SpaceRun(i), i)

alphanum1(i) == take_while1(IdentRun(i), i)

\* faulty variant: the quoted value ends at a closing parenthesis too
RECURSIVE NotQuoteParenRun(_)
NotQuoteParenRun(i) ==
    IF i # <<>> /\ Head(i) # "'" /\ Head(i) # ")"
    THEN 1 + NotQuoteParenRun(Tail(i))
    ELSE 0

arg1_until_paren(i) ==
    LET q == char("'", i)
        v == take_while(NotQuoteParenRun(q.rest), q.rest)
    IN  alt(take_while1(BareRun(i), i),
            preceded(q, cut(terminated(v, char("'", v.rest)))))

\* val | 'val ue'
arg1(i) ==
    LET q == char("'", i)
        v == take_while(NotQuoteRun(q.rest), q.rest)
    IN  alt(take_while1(BareRun(i), i),
            preceded(q, cut(terminated(v, char("'", v.rest)))))

MkArg(key, val) == [key |-> key, val |-> val]

\* |(key, val)| Arg { key, val: Some(val) }
map_key_val(p) ==
    IF IsOk(p) THEN Ok(p.rest, MkArg(p.out[1], <<p.out[2]>>)) ELSE p

\* |key| Arg { key, val: None }
map_key(k) == IF IsOk(k) THEN Ok(k.rest, MkArg(k.out, <<>>)) ELSE k

\* faulty variant: the value after the colon is not cut
parse_arg_uncut(i) ==
    LET k == alphanum1(i)
        c == char(":", k.rest)
    IN  alt(map_key_val(separated_pair(k, c, arg1(c.rest))), map_key(k))

\* key:val | abc
parse_arg(i) ==
    LET k == alphanum1(i)
        c == char(":", k.rest)
    IN  alt(map_key_val(separated_pair(k, c, cut(arg1(c.rest)))), map_key(k))

\* the separator of the argument list: preceded(spaces, char(','))
arg_sep(i) == LET s == spaces(i) IN preceded(s, char(",", s.rest))

\* an element of the argument list: preceded(spaces, parse_arg)
arg_elem(i) == LET s == spaces(i) IN preceded(s, parse_arg(s.rest))

\* separated_list0(arg_sep, arg_elem): i is the input before the separator,
\* acc the elements so far, s and e the results of separator and element
RECURSIVE separated_list0_args_loop(_, _)

args_after_elem(i, acc, e) ==
    IF e.kind = "Error" THEN Ok(i, acc)
    ELSE IF e.kind = "Failure" THEN e
    ELSE separated_list0_args_loop(e.rest, Append(acc, e.out))

args_after_sep(i, acc, s) ==
    IF s.kind = "Error" THEN Ok(i, acc)
    ELSE IF s.kind = "Failure" THEN s
    ELSE IF Len(s.rest) = Len(i) THEN Error(Other(s.rest, "SeparatedList"))
    ELSE args_after_elem(i, acc, arg_elem(s.rest))

separated_list0_args_loop(i, acc) == args_after_sep(i, acc, arg_sep(i))

separated_list0_args(i) == args_after_elem(i, <<>>, arg_elem(i))

\* terminated(inner, preceded(spaces, char(')')))
args_close(inner) ==
    LET s == spaces(inner.rest)
    IN  terminated(inner, preceded(s, char(")", s.rest)))

\* (arg,key:val)
parse_args(i) ==
    LET o == char("(", i)
    IN  preceded(o, cut(args_close(separated_list0_args(o.rest))))

MkFormatter(name, args) == [name |-> name, args |-> args]

\* |(name, args)| Formatter { name, args: args.unwrap_or_default() }
map_formatter(p) ==
    IF IsOk(p)
    THEN Ok(p.rest, MkFormatter(p.out[1],
               IF p.out[2] = <<>> THEN <<>> ELSE p.out[2][1]))
    ELSE p

\* tuple((alphanum1, opt(parse_args))), n the result of alphanum1
formatter_tail(n) == tuple(n, opt(parse_args(n.rest), n.rest))

\* .str(width:2)
parse_formatter(i) ==
    LET d == char(".", i)
    IN  map_formatter(preceded(d, cut(formatter_tail(alphanum1(d.rest)))))

MkPlaceholder(name, formatter) == [name |-> name, formatter |-> formatter]

\* |(name, formatter)| Placeholder { name, formatter }
map_placeholder(p) ==
    IF IsOk(p) THEN Ok(p.rest, MkPlaceholder(p.out[1], p.out[2])) ELSE p

\* tuple((alphanum1, opt(parse_formatter))), n the result of alphanum1
placeholder_tail(n) == tuple(n, opt(parse_formatter(n.rest), n.rest))

\* $var | $key.eng(unit:bits,show)
parse_placeholder(i) ==
    LET d == char("$", i)
    IN  map_placeholder(preceded(d, cut(placeholder_tail(alphanum1(d.rest)))))

\* escaped_transform(take_while1(text char), '\\', anychar): index is the
\* number of characters consumed so far, acc the decoded string
RECURSIVE escaped_transform(_, _, _)
\* faulty variant: an escape is only taken after a normal character
escaped_transform_first(i, index, acc) ==
    LET remainder == Drop(i, index)
        normal == take_while1(TextRun(remainder), remainder)
        next == index + 1
        tr == anychar(Drop(i, next))
    IN  IF index >= Len(i) THEN Ok(i, acc)
        ELSE IF IsOk(normal)
        THEN IF normal.rest = <<>> THEN Ok(<<>>, acc \o normal.out)
             ELSE IF Len(normal.rest) = Len(i) THEN Ok(remainder, acc \o normal.out)
             ELSE escaped_transform(i, Len(i) - Len(normal.rest), acc \o normal.out)
        ELSE IF index = 0 THEN Error(Other(remainder, "EscapedTransform"))
        ELSE IF Head(remainder) = "\\"
        THEN IF next >= Len(i) THEN Error(Other(remainder, "EscapedTransform"))
             ELSE IF IsOk(tr)
             THEN IF tr.rest = <<>> THEN Ok(<<>>, Append(acc, tr.out))
                  ELSE escaped_transform(i, Len(i) - Len(tr.rest), Append(acc, tr.out))
             ELSE tr
        ELSE Ok(remainder, acc)

\* faulty variant: the text ends after an escape
escaped_transform_stop(i, index, acc) ==
    LET remainder == Drop(i, index)
        normal == take_while1(TextRun(remainder), remainder)
        next == index + 1
        tr == anychar(Drop(i, next))
    IN  IF index >= Len(i) THEN Ok(i, acc)
        ELSE IF IsOk(normal)
        THEN IF normal.rest = <<>> THEN Ok(<<>>, acc \o normal.out)
             ELSE IF Len(normal.rest) = Len(i) THEN Ok(remainder, acc \o normal.out)
             ELSE escaped_transform(i, Len(i) - Len(normal.rest), acc \o normal.out)
        ELSE IF Head(remainder) = "\\"
        THEN IF next >= Len(i) THEN Error(Other(remainder, "EscapedTransform"))
             ELSE IF IsOk(tr) THEN Ok(tr.rest, Append(acc, tr.out))
             ELSE tr
        ELSE IF index = 0 THEN Error(Other(remainder, "EscapedTransform"))
        ELSE Ok(remainder, acc)

escaped_transform(i, index, acc) ==
    LET remainder == Drop(i, index)
        normal == take_while1(TextRun(remainder), remainder)
        next == index + 1
        tr == anychar(Drop(i, next))
    IN  IF index >= Len(i) THEN Ok(i, acc)
        ELSE IF IsOk(normal)
        THEN IF normal.rest = <<>> THEN Ok(<<>>, acc \o normal.out)
             ELSE IF Len(normal.rest) = Len(i) THEN Ok(remainder, acc \o normal.out)
             ELSE escaped_transform(i, Len(i) - Len(normal.rest), acc \o normal.out)
        ELSE IF Head(remainder) = "\\"
        THEN IF next >= Len(i) THEN Error(Other(remainder, "EscapedTransform"))
             ELSE IF IsOk(tr)
             THEN IF tr.rest = <<>> THEN Ok(<<>>, Append(acc, tr.out))
                  ELSE escaped_transform(i, Len(i) - Len(tr.rest), Append(acc, tr.out))
             ELSE tr
        ELSE IF index = 0 THEN Error(Other(remainder, "EscapedTransform"))
        ELSE Ok(remainder, acc)

\* faulty variant: the empty input is not refused
parse_string_noeof(i) == escaped_transform(i, 0, <<>>)

\* just escaped \| text
parse_string(i) ==
    preceded(not(eof(i), i), escaped_transform(i, 0, <<>>))

icon_ == <<"i", "c", "o", "n", "_">>

\* ^icon_name
parse_icon(i) ==
    LET h == char("^", i)
        t == tag(icon_, h.rest)
    IN  preceded(h, cut(preceded(t, alphanum1(t.rest))))

Text(s) == [t |-> "Text", s |-> s]

Placeholder(p) == [t |-> "Placeholder", p |-> p]

Icon(n) == [t |-> "Icon", name |-> n]

Recursive(f) == [t |-> "Recursive", tmpl |-> f]

map_text(r) == IF IsOk(r) THEN Ok(r.rest, Text(r.out)) ELSE r

map_placeholder_token(r) == IF IsOk(r) THEN Ok(r.rest, Placeholder(r.out)) ELSE r

map_icon(r) == IF IsOk(r) THEN Ok(r.rest, Icon(r.out)) ELSE r

map_recursive(r) == IF IsOk(r) THEN Ok(r.rest, Recursive(r.out)) ELSE r

RECURSIVE parse_format_template(_)

\* faulty variant: the closing brace is not consumed
template_close_open(f) == f

\* terminated(parse_format_template, char('}'))
template_close(f) == terminated(f, char("}", f.rest))

\* { a | b | c }
parse_recursive_template(i) ==
    LET o == char("{", i)
    IN  preceded(o, cut(template_close(parse_format_template(o.rest))))

\* the alt of parse_token_list: text, placeholder, icon, nested template
token(i) ==
    alt(map_text(parse_string(i)),
    alt(map_placeholder_token(parse_placeholder(i)),
    alt(map_icon(parse_icon(i)),
        map_recursive(parse_recursive_template(i)))))

\* many0(token): i is the input before the token, acc the tokens so far,
\* r the result of the token parser
RECURSIVE many0_token(_, _)

many0_after_token(i, acc, r) ==
    IF r.kind = "Error" THEN Ok(i, acc)
    ELSE IF r.kind = "Failure" THEN r
    ELSE IF Len(r.rest) = Len(i) THEN Error(Other(i, "Many0"))
    ELSE many0_token(r.rest, Append(acc, r.out))

many0_token(i, acc) == many0_after_token(i, acc, token(i))

parse_token_list(i) == many0_token(i, <<>>)

\* separated_list0(char('|'), parse_token_list): i is the input before the
\* separator, acc the token lists so far
RECURSIVE separated_list0_pipe_loop(_, _)

pipe_after_elem(i, acc, e) ==
    IF e.kind = "Error" THEN Ok(i, acc)
    ELSE IF e.kind = "Failure" THEN e
    ELSE separated_list0_pipe_loop(e.rest, Append(acc, e.out))

pipe_after_sep(i, acc, s) ==
    IF s.kind = "Error" THEN Ok(i, acc)
    ELSE IF s.kind = "Failure" THEN s
    ELSE IF Len(s.rest) = Len(i) THEN Error(Other(s.rest, "SeparatedList"))
    ELSE pipe_after_elem(i, acc, parse_token_list(s.rest))

separated_list0_pipe_loop(i, acc) == pipe_after_sep(i, acc, char("|", i))

parse_format_template(i) == pipe_after_elem(i, <<>>, parse_token_list(i))

\* Result<FormatTemplate>: the template, or the message of the error
Good(template) == [ok |-> TRUE, template |-> template]

Bad(fmt, args) == [ok |-> FALSE, panic |-> FALSE, fmt |-> fmt, args |-> args]

\* a panic: the unwrap of an absent character, or unreachable!()
Panic(what) == [ok |-> FALSE, panic |-> TRUE, fmt |-> what, args |-> <<>>]

\* the message parse_full makes of a PError
Translate(err) ==
    IF err.t = "Expected"
    THEN IF err.actual # <<>>
         THEN Bad("expected '{expected}', got '{actual}'",
                  <<err.expected, err.actual[1]>>)
         ELSE Bad("expected '{expected}', got EOF", <<err.expected>>)
    ELSE Bad("{kind:?} error near '{input}'", <<err.kind, err.input>>)

\* faulty variant: the remainder is not looked at
full_result_lax(r) ==
    IF r.kind = "Ok" THEN Good(r.out)
    ELSE IF r.kind = "Incomplete" THEN Panic("unreachable")
    ELSE Translate(r.err)

\* the match of parse_full on the result r of parse_format_template
full_result(r) ==
    IF r.kind = "Ok"
    THEN IF r.rest = <<>> THEN Good(r.out)
         ELSE IF Len(r.rest) = 0 THEN Panic("unwrap")
         ELSE Bad("unexpected '{}'", <<Head(r.rest)>>)
    ELSE IF r.kind = "Incomplete" THEN Panic("unreachable")
    ELSE Translate(r.err)

parse_full(i) == full_result(parse_format_template(i))

----------------------------------------------------------------------------
(* The inputs                                                              *)

MaxLen == 3

MaxFramedLen == 2

MaxNest == 2

\* the pieces an enumerated input is made of: one character of each class
\* the grammar tells apart, and the literal of parse_icon
Frags ==
    {<<"a">>, <<" ">>, <<"$">>, <<"^">>, <<"{">>, <<"}">>, <<"|">>, <<"\\">>,
     <<".">>, <<"(">>, <<")">>, <<":">>, <<",">>, <<"'">>, icon_}

RECURSIVE Strings(_)
Strings(n) ==
    IF n = 0 THEN {<<>>}
    ELSE LET S == Strings(n - 1) IN S \cup {s \o f : s \in S, f \in Frags}

\* the inputs of the tests of parse.rs
Scenarios ==
    {<<"k", "e", "y", ":", "v", "a", "l", ",">>,
     <<"k", "e", "y", ":", "'", "v", "a", "l", " ", "u", "e", "'", ",">>,
     <<"k", "e", "y", ":", "'", "'", ",">>,
     <<"k", "e", "y", ",">>,
     <<"k", "e", "y", ":", ",">>,
     <<"(", "k", "e", "y", ":", "v", "a", "l", ")">>,
     <<"(", " ", "a", "b", "c", ":", "d", " ", ",", " ", "k", "e", "y", ":",
       "v", "a", "l", " ", ")">>,
     <<"(", "a", "b", "c", ")">>,
     <<"(", " ", "k", "e", "y", ":", ",", " ", ")">>,
     <<".", "s", "t", "r", "(", "k", "e", "y", ":", "v", "a", "l", ")">>,
     <<".", "e", "n", "g", "(", "w", ":", "3", " ", ",", " ", "s", "h", "o",
       "w", ":", "t", "r", "u", "e", " ", ")">>,
     <<".", "e", "n", "g", "(", "w", ":", "3", " ", ",", " ", "s", "h", "o",
       "w", ")">>,
     <<"$", "k", "e", "y">>,
     <<"$", "v", "a", "r", ".", "s", "t", "r", "(", ")">>,
     <<"$", "v", "a", "r", ".", "s", "t", "r", "(", "a", ":", "b", ",", " ",
       "c", ":", "d", ")">>,
     <<"$", "k", "e", "y", ".">>,
     <<"^", "i", "c", "o", "n", "_", "m", "y", "_", "i", "c", "o", "n">>,
     <<"^", "i", "c", "o", "n", "_", "m">>,
     <<"^", "i", "c", "o", "n", "_">>,
     <<"^", "2">>,
     <<" ", "a", "b", "c", " ", "\\", "$", " ", "$", "v", "a", "r", ".", "s",
       "t", "r", "(", "a", ":", "b", ")", "$", "x", " ">>,
     <<"s", "i", "m", "p", "l", "e">>,
     <<" ", "$", "x", ".", "s", "t", "r", "(", ")", " ", "|", " ", "N", "/",
       "A", " ">>,
     <<" ", "^", "i", "c", "o", "n", "_", "m", "y", "_", "i", "c", "o", "n",
       " ", "{", "$", "x", ".", "s", "t", "r", "(", ")", "|", "N", "/", "A",
       "}", " ">>}

\* an input is a body inside a frame; the raw frame adds nothing
Frame(kind, key, pre, post) ==
    [kind |-> kind, key |-> key, pre |-> pre, post |-> post]

Raw == Frame("raw", <<>>, <<>>, <<>>)

\* (k:'v'): an argument list of one quoted value, v the body
QuotedArgs(k) ==
    Frame("args", k, <<"(">> \o k \o <<":", "'">>, <<"'", ")">>)

Keys == {<<"k">>, <<"a", "_", "-", "1">>}

\* templates of one placeholder, the body inside its argument list: as a
\* quoted value, as the whole list, and after a first argument
TemplateQuoted ==
    Frame("template", <<"k">>,
          <<"$", "a", ".", "a", "(", "k", ":", "'">>, <<"'", ")">>)

TemplateArgs == Frame("template", <<>>, <<"$", "a", ".", "a", "(">>, <<")">>)

TemplateArgs2 ==
    Frame("template", <<>>, <<"$", "a", ".", "a", "(", "a">>, <<")">>)

Frames ==
    {Raw, TemplateQuoted, TemplateArgs, TemplateArgs2}
        \cup {QuotedArgs(k) : k \in Keys}

\* the characters of the escapes \c given to the parsers
EscapableChars ==
    Alphanumeric \cup AsciiWhitespace \cup
    {"$", "^", "{", "}", "|", "\\", ".", "(", ")", ":", ",", "'", "_", "-",
     "%", "/", "\""}

Escapes == {<<"\\", c>> : c \in EscapableChars}

NoResult == [kind |-> "None"]

Init ==
    /\ frame \in Frames
    /\ body \in (IF frame = Raw
                 THEN Strings(MaxLen) \cup Scenarios \cup Escapes
                 ELSE Strings(MaxFramedLen))
    /\ input = frame.pre \o body \o frame.post
    /\ pc = "start"
    /\ res = NoResult
    /\ prev = NoResult
    /\ depth = 0

\* a framed input is given to the parsers of its level, a raw one to all
TemplateLevel == frame.kind \in {"raw", "template"}

ArgsLevel == frame.kind \in {"raw", "args"}

RawLevel == frame.kind = "raw"

\* one call of a parser on the input: pc names the parser that ran
ParseFull ==
    /\ pc = "start"
    /\ TemplateLevel
    /\ pc' = "parse_full"
    /\ res' = parse_full(input)
    /\ UNCHANGED <<frame, body, input, prev, depth>>

ParseFormatTemplate ==
    /\ pc = "start"
    /\ TemplateLevel
    /\ pc' = "parse_format_template"
    /\ res' = parse_format_template(input)
    /\ UNCHANGED <<frame, body, input, prev, depth>>

ParseTokenList ==
    /\ pc = "start"
    /\ TemplateLevel
    /\ pc' = "parse_token_list"
    /\ res' = parse_token_list(input)
    /\ UNCHANGED <<frame, body, input, prev, depth>>

ParseToken ==
    /\ pc = "start"
    /\ TemplateLevel
    /\ pc' = "token"
    /\ res' = token(input)
    /\ UNCHANGED <<frame, body, input, prev, depth>>

ParseString ==
    /\ pc = "start"
    /\ RawLevel
    /\ pc' = "parse_string"
    /\ res' = parse_string(input)
    /\ UNCHANGED <<frame, body, input, prev, depth>>

ParsePlaceholder ==
    /\ pc = "start"
    /\ TemplateLevel
    /\ pc' = "parse_placeholder"
    /\ res' = parse_placeholder(input)
    /\ UNCHANGED <<frame, body, input, prev, depth>>

ParseIcon ==
    /\ pc = "start"
    /\ RawLevel
    /\ pc' = "parse_icon"
    /\ res' = parse_icon(input)
    /\ UNCHANGED <<frame, body, input, prev, depth>>

ParseRecursiveTemplate ==
    /\ pc = "start"
    /\ RawLevel
    /\ pc' = "parse_recursive_template"
    /\ res' = parse_recursive_template(input)
    /\ UNCHANGED <<frame, body, input, prev, depth>>

ParseFormatter ==
    /\ pc = "start"
    /\ RawLevel
    /\ pc' = "parse_formatter"
    /\ res' = parse_formatter(input)
    /\ UNCHANGED <<frame, body, input, prev, depth>>

ParseArgs ==
    /\ pc = "start"
    /\ ArgsLevel
    /\ pc' = "parse_args"
    /\ res' = parse_args(input)
    /\ UNCHANGED <<frame, body, input, prev, depth>>

ParseArg ==
    /\ pc = "start"
    /\ RawLevel
    /\ pc' = "parse_arg"
    /\ res' = parse_arg(input)
    /\ UNCHANGED <<frame, body, input, prev, depth>>

Arg1 ==
    /\ pc = "start"
    /\ RawLevel
    /\ pc' = "arg1"
    /\ res' = arg1(input)
    /\ UNCHANGED <<frame, body, input, prev, depth>>

ArgSep ==
    /\ pc = "start"
    /\ RawLevel
    /\ pc' = "arg_sep"
    /\ res' = arg_sep(input)
    /\ UNCHANGED <<frame, body, input, prev, depth>>

\* a template that parsed is put inside braces and parsed again
Nest ==
    /\ pc = "parse_full"
    /\ res.ok
    /\ depth < MaxNest
    /\ input' = <<"{">> \o input \o <<"}">>
    /\ res' = parse_full(input')
    /\ prev' = res
    /\ depth' = depth + 1
    /\ UNCHANGED <<frame, body, pc>>

\* the templates in which an input of the parser named by pc is reached
Contexts(p) ==
    CASE p \in {"parse_placeholder", "parse_icon", "parse_recursive_template", "token"} ->
           {<<>>, <<"a", "|">>, <<"{", "$", "a">>}
      [] p = "parse_formatter" -> {<<"$", "a">>, <<"{", "a", "|", "$", "a">>}
      [] p = "parse_args" -> {<<"$", "a", ".", "a">>, <<"{", "$", "a", ".", "a">>}
      [] p = "parse_arg" ->
           {<<"$", "a", ".", "a", "(">>,
            <<"$", "a", ".", "a", "(", "a", ",">>,
            <<"{", "|", "$", "a", ".", "a", "(", "a", " ", ",", " ">>}
      [] p = "arg1" -> {<<"$", "a", ".", "a", "(", "k", ":">>}
      [] OTHER -> {}

\* an input on which a sub-parser failed for good is met inside a template
Embed ==
    /\ Contexts(pc) # {}
    /\ res.kind = "Failure"
    /\ \E ctx \in Contexts(pc) : input' = ctx \o input
    /\ res' = parse_full(input')
    /\ prev' = res
    /\ pc' = "embedded"
    /\ UNCHANGED <<frame, body, depth>>

Next ==
    \/ ParseFull
    \/ ParseFormatTemplate
    \/ ParseTokenList
    \/ ParseToken
    \/ ParseString
    \/ ParsePlaceholder
    \/ ParseIcon
    \/ ParseRecursiveTemplate
    \/ ParseFormatter
    \/ ParseArgs
    \/ ParseArg
    \/ Arg1
    \/ ArgSep
    \/ Nest
    \/ Embed

Spec == Init /\ [][Next]_vars

----------------------------------------------------------------------------
(* Properties                                                              *)

\* a state in which parse_full has run on input
Parsed == pc = "parse_full"

\* the template of one alternative holding one token
Single(tokn) == <<<<tokn>>>>

(* C1: parse_full returns a template only if parse_format_template consumed  *)
(* the whole input, and then returns that template; when                   *)
(* parse_format_template succeeds and leaves a remainder, parse_full        *)
(* returns the error that names the first character of the remainder.      *)
FullConsumption ==
    Parsed =>
        LET r == parse_format_template(input)
        IN  /\ res.ok => r.kind = "Ok" /\ r.rest = <<>> /\ res.template = r.out
            /\ r.kind = "Ok" /\ r.rest # <<>> =>
                   res = Bad("unexpected '{}'", <<Head(r.rest)>>)

\* a template followed by a closing brace nothing opened
FullConsumptionWitness ==
    /\ Parsed
    /\ input = <<"a", "|", "}">>
    /\ res = Bad("unexpected '{}'", <<"}">>)

(* C9: when parse_token_list succeeds, the remaining input is empty or      *)
(* begins with | or }.                                                     *)
TokenListStops ==
    pc = "parse_token_list" /\ res.kind = "Ok" =>
        res.rest = <<>> \/ Head(res.rest) \in {"|", "}"}

(* C5: the input of a backslash and one character c parses to one           *)
(* alternative holding the one token Text(c).                              *)
EscapedChar ==
    Parsed /\ Len(input) = 2 /\ Head(input) = "\\" =>
        res = Good(Single(Text(<<input[2]>>)))

EscapedCharWitness ==
    /\ Parsed
    /\ input = <<"\\", "\\">>
    /\ res = Good(Single(Text(<<"\\">>)))

\* no quote occurs in s
NoQuote(s) == \A n \in 1..Len(s) : s[n] # "'"

\* the special characters of a template
Specials == {"$", "^", "{", "}", "|", "\\"}

\* none of $ ^ { } | \ occurs in s
NoSpecials(s) == \A n \in 1..Len(s) : s[n] \notin Specials

(* C6, as stated: a text s without special characters parses to one         *)
(* alternative holding the one token Text(s).                              *)
PlainText ==
    Parsed /\ NoSpecials(input) => res = Good(Single(Text(input)))

(* C6, amended: a non-empty text s without special characters parses to     *)
(* one alternative holding the one token Text(s).                          *)
PlainTextNonEmpty ==
    Parsed /\ NoSpecials(input) /\ input # <<>> =>
        res = Good(Single(Text(input)))

PlainTextWitness ==
    /\ Parsed
    /\ input = <<"a", "'", " ">>
    /\ res = Good(Single(Text(input)))

\* s begins with the character c
Starts(s, c) == s # <<>> /\ Head(s) = c

\* s begins with an identifier followed by a colon
KeyColon(s) == IdentRun(s) > 0 /\ Starts(Drop(s, IdentRun(s)), ":")

(* C2: once a distinguishing prefix is consumed, what follows either        *)
(* parses or fails for good: key: never falls back to the bare key, $ ^ {  *)
(* never fall back to Text, and the failure of a sub-parser comes out of    *)
(* parse_full on a template around it as the message of that same error.   *)
CommittedFailure ==
    /\ pc = "parse_arg" /\ KeyColon(input) =>
           \/ res.kind = "Failure"
           \/ res.kind = "Ok" /\ res.out.val # <<>>
    /\ pc = "arg1" /\ Starts(input, "'") => res.kind # "Error"
    /\ pc = "parse_args" /\ Starts(input, "(") => res.kind # "Error"
    /\ pc = "parse_formatter" /\ Starts(input, ".") => res.kind # "Error"
    /\ pc = "parse_placeholder" /\ Starts(input, "$") => res.kind # "Error"
    /\ pc = "parse_icon" /\ Starts(input, "^") => res.kind # "Error"
    /\ pc = "parse_recursive_template" /\ Starts(input, "{") =>
           res.kind # "Error"
    /\ pc = "token" /\ input # <<>> /\ Head(input) \in {"$", "^", "{"} =>
           \/ res.kind = "Failure"
           \/ res.kind = "Ok" /\ res.out.t # "Text"
    /\ pc = "embedded" => res = Translate(prev.err)
    /\ pc = "parse_arg" /\ input = <<"k", "e", "y", ":", ",">> =>
           res = Failure(Expected("'", <<",">>))
    /\ pc = "parse_args"
           /\ input = <<"(", " ", "k", "e", "y", ":", ",", " ", ")">> =>
           res = Failure(Expected("'", <<",">>))
    /\ pc = "parse_placeholder" /\ input = <<"$", "k", "e", "y", ".">> =>
           res.kind = "Failure"
    /\ pc = "parse_icon"
           /\ input \in {<<"^", "i", "c", "o", "n", "_">>, <<"^", "2">>} =>
           res.kind = "Failure"
    /\ Parsed /\ input \in {<<"$", "k", "e", "y", ".">>,
                            <<"^", "i", "c", "o", "n", "_">>, <<"^", "2">>} =>
           ~res.ok

\* key:, inside the argument list of a nested placeholder
CommittedFailureWitness ==
    /\ pc = "embedded"
    /\ input = <<"{", "|", "$", "a", ".", "a", "(", "a", " ", ",", " ",
                 "a", ":", ",">>
    /\ prev = Failure(Expected("'", <<",">>))
    /\ res = Bad("expected '{expected}', got '{actual}'", <<"'", ",">>)

\* what follows the closing quote of a quoted value, s what follows the
\* opening one
AfterQuoted(s) == Drop(s, NotQuoteRun(s) + 1)

\* what follows the closing parenthesis of an argument list, s what follows
\* the opening one
RECURSIVE AfterArgs(_)
AfterArgs(s) ==
    IF s = <<>> THEN s
    ELSE IF Head(s) = ")" THEN Tail(s)
    ELSE IF Head(s) = "'" THEN AfterArgs(AfterQuoted(Tail(s)))
    ELSE AfterArgs(Tail(s))

\* what follows .name and its argument list, s what follows the name of a
\* placeholder
AfterFormatter(s) ==
    IF Starts(s, ".")
    THEN LET b == Drop(Tail(s), IdentRun(Tail(s)))
         IN  IF Starts(b, "(") THEN AfterArgs(Tail(b)) ELSE b
    ELSE s

\* what follows a placeholder, s what follows its $
AfterPlaceholder(s) == AfterFormatter(Drop(s, IdentRun(s)))

\* the number of unescaped | of s outside braces, d the number of braces
\* open; with skip, the argument lists of placeholders are passed over
RECURSIVE Pipes(_, _, _)
Pipes(s, d, skip) ==
    IF s = <<>> THEN 0
    ELSE CASE Head(s) = "\\" -> Pipes(Drop(s, 2), d, skip)
           [] Head(s) = "{" -> Pipes(Tail(s), d + 1, skip)
           [] Head(s) = "}" -> Pipes(Tail(s), IF d > 0 THEN d - 1 ELSE 0, skip)
           [] Head(s) = "|" -> (IF d = 0 THEN 1 ELSE 0) + Pipes(Tail(s), d, skip)
           [] Head(s) = "$" /\ skip -> Pipes(AfterPlaceholder(Tail(s)), d, skip)
           [] OTHER -> Pipes(Tail(s), d, skip)

(* C3, as stated: a parsed template has n+1 alternatives, n the number of   *)
(* unescaped | of the input outside any braces.                            *)
AlternativeCount ==
    Parsed /\ res.ok => Len(res.template) = Pipes(input, 0, FALSE) + 1

(* C3, amended: a parsed template has n+1 alternatives, n the number of     *)
(* unescaped | of the input outside any braces and outside the argument    *)
(* lists of placeholders, whose quoted values hold | { } \ as plain        *)
(* characters.                                                             *)
AlternativeCountOutsideArgs ==
    Parsed /\ res.ok => Len(res.template) = Pipes(input, 0, TRUE) + 1

\* a quoted | in an argument list, and two alternatives
AlternativeCountWitness ==
    /\ Parsed
    /\ res.ok
    /\ input = <<"$", "a", ".", "a", "(", "k", ":", "'", "|", "|", "'", ")">>
    /\ Len(res.template) = 1

(* C4: a template t that parses to T parses, inside braces, to one          *)
(* alternative holding the one token Recursive(T).                         *)
Nesting ==
    Parsed /\ depth > 0 =>
        prev.ok /\ res = Good(Single(Recursive(prev.template)))

\* the template inside the braces has alternatives of its own
NestingWitness ==
    /\ Parsed
    /\ depth = 2
    /\ prev.ok
    /\ Len(prev.template[1][1].tmpl) = 2
    /\ res = Good(Single(Recursive(prev.template)))

(* C7: for a value v without a quote, (k:'v') parses to the one argument    *)
(* of key k and value v, and nothing is left.                              *)
QuoteExactness ==
    pc = "parse_args" /\ frame.kind = "args" /\ NoQuote(body) =>
        res = Ok(<<>>, <<MkArg(frame.key, <<body>>)>>)

\* a value of a closing parenthesis, a comma and a space
QuoteExactnessWitness ==
    /\ pc = "parse_args"
    /\ frame.kind = "args"
    /\ body = <<")", ",">>
    /\ res = Ok(<<>>, <<MkArg(<<"a", "_", "-", "1">>, <<body>>)>>)

\* the guard of many0 or separated_list0 made this error
GuardFired(r) ==
    r.kind \in {"Error", "Failure"} /\ r.err.t = "Other"
        /\ r.err.kind \in {"Many0", "SeparatedList"}

(* C8: every token and every separator that parses consumes a character,   *)
(* so the guards of many0 and separated_list0 never fire (many0 and         *)
(* separated_list0 have no other recoverable error), and parse_full         *)
(* returns a template or a message on every input, never a panic.          *)
Progress ==
    /\ pc = "token" /\ res.kind = "Ok" => Len(res.rest) < Len(input)
    /\ pc = "arg_sep" /\ res.kind = "Ok" => Len(res.rest) < Len(input)
    /\ pc \in {"parse_token_list", "parse_format_template"} =>
           res.kind # "Error" /\ ~GuardFired(res)
    /\ pc = "parse_format_template" /\ res.kind = "Ok" =>
           res.out # <<>> /\ Len(res.rest) <= Len(input)
    /\ pc \in {"parse_args", "parse_formatter", "parse_placeholder",
               "parse_recursive_template"} => ~GuardFired(res)
    /\ pc \in {"parse_full", "embedded"} =>
           /\ res.ok \/ ~res.panic
           /\ ~res.ok => res.args[1] \notin {"Many0", "SeparatedList"}

\* a token list that ends at the end of the input, after four tokens
ProgressWitness ==
    /\ pc = "parse_token_list"
    /\ res.kind = "Ok"
    /\ res.rest = <<>>
    /\ Len(res.out) = 4

\* no two neighbours of a token list are both Text, at any depth
RECURSIVE NoAdjacentText(_)
NoAdjacentText(template) ==
    \A a \in 1..Len(template) :
        LET list == template[a]
        IN  /\ \A n \in 1..(Len(list) - 1) :
                   ~(list[n].t = "Text" /\ list[n + 1].t = "Text")
            /\ \A n \in 1..Len(list) :
                   list[n].t = "Recursive" => NoAdjacentText(list[n].tmpl)

(* C10: in a parsed template no two consecutive tokens of a token list are  *)
(* both Text, at any depth; the text lexer stops only at the end of the     *)
(* input or before one of $ ^ { } |.                                       *)
MaximalMunch ==
    /\ pc \in {"parse_full", "embedded"} /\ res.ok => NoAdjacentText(res.template)
    /\ pc = "parse_string" /\ res.kind = "Ok" =>
           res.rest = <<>> \/ Head(res.rest) \in {"$", "^", "{", "}", "|"}

\* an escape and the text after it make one Text, two braces deep
MaximalMunchWitness ==
    /\ Parsed
    /\ depth = 2
    /\ res = Good(Single(Recursive(Single(Recursive(
                 Single(Text(<<"$", "a">>)))))))

====
